---- MODULE Spec2Model ----
(***************************************************************************)
(* A model of sbox-sim: the SBox contactor state machine fed by inbound    *)
(* CAN frames (sbox-sim.py), the synthesized output voltage, the frame     *)
(* registry built by SBox.__init__, and the telemetry frames of            *)
(* sbox_can_messages.py.                                                   *)
(*                                                                         *)
(* Time is counted in ticks.  One tick is PRECHARGE_RC * ln(128) =         *)
(* 0.2058 s * 4.852 = 0.9985 s, taken as the one second of int(time.time())*)
(* so that exp(-elapsed/PRECHARGE_RC) is 1/128 per tick.                   *)
(* Voltages read by the transmit side are in millivolts, the unit          *)
(* PostContactorVoltage.update converts to (int(output_voltage * 1000)).   *)
(***************************************************************************)
EXTENDS Integers, Sequences, FiniteSets, TLC

VARIABLES
    sbox,         \* the SBox object's fields (sbox-sim.py 44-61)
    now,          \* the wall clock, in ticks
    last,         \* history: the last frame on_message processed, the state before it and when
    rx,           \* the receive thread's position inside on_message (threaded model)
    rd,           \* a reader's position and what it has read so far (threaded model)
    snaps,        \* history: the complete states that existed during the reader's evaluation
    declared,     \* other.MSGS: the ad-hoc frame declarations, as arbitration ids
    tx_messages,  \* SBox.tx_messages: arbitration id -> index of the frame stored under it
    ctor,         \* SBox.__init__: "pending", "ok" or "failed"
    data,         \* payload bytes of the three telemetry frames
    hist,         \* history: the latest alive-counter values the Current frame emitted
    rate,         \* history: the frames received in the current and in the prior second
    milli,        \* a milli-unit value and whether it has been packed into a payload
    sched         \* the transmit task of each telemetry frame

vars == <<sbox, now, last, rx, rd, snaps, declared, tx_messages, ctor, data, hist,
          rate, milli, sched>>

----------------------------------------------------------------------------
(* Bounds of the model *)

\* The clock starts at this second (time.time() is far from 0, the initial _last_sec).
StartSec == 1
\* The clock advances at most this many ticks.
MaxTicks == 2
\* At most this many frames are received within one second.
MaxMsgsPerSec == 2
\* At most this many frames are received in a run of the threaded model.
MaxThreadMsgs == 3

----------------------------------------------------------------------------
(* Program constants *)

None == -1              \* Python's None for _pch_start
ControlId == 256        \* 0x100
SetupId == 768          \* 0x300
CurrentId == 512        \* 0x200
PackVoltageId == 528    \* 0x210
PostContactorVoltageId == 544  \* 0x220
TicksPerSec == 1
DecayPerTick == 128

SetupMagic == <<255, 254, 255, 255>>   \* b'\xff\xfe\xff\xff'

CmdOpen == 0
CmdPrecharge == 166     \* 0xA6
CmdClosed == 170        \* 0xAA
CmdPchOnly == 134       \* 0x86
CmdPosOnly == 10        \* 0x0A
CmdNegPch == 98         \* 0x62

----------------------------------------------------------------------------
(* Inbound frames: can.Message, with dlc = len(data) *)

Msg(id, bytes) == [arbitration_id |-> id, data |-> bytes]
Dlc(msg) == Len(msg.data)

IsControl4(msg) == msg.arbitration_id = ControlId /\ Dlc(msg) = 4

\* An identifier (0x123) that is neither a command channel nor a transmitted frame.
OtherIds == {291}
\* No frame processed yet.
NoMsg == Msg(0, <<>>)

CommandBytes == {CmdOpen, CmdPrecharge, CmdClosed, CmdPchOnly, CmdPosOnly, CmdNegPch}
\* First bytes that are no known command.
UnknownBytes == {1, 255}

\* A 4-byte control frame whose command byte is none of the six known ones.
IsUnknownCommand(msg) == IsControl4(msg) /\ msg.data[1] \notin CommandBytes

Payloads4 ==
    { <<c, 0, 0, 0>> : c \in CommandBytes \cup UnknownBytes }
      \cup { SetupMagic, <<255, 254, 255, 254>>, <<166, 254, 255, 255>> }
PayloadsOther ==
    { <<>>, <<166>>, <<170, 0, 0>>, <<166, 0, 0, 0, 0>>,
      <<255, 254, 255>>, <<255, 254, 255, 255, 255>>,
      <<0, 0, 0, 0, 0, 0, 0, 0>> }
Payloads == Payloads4 \cup PayloadsOther

Frames ==
    { Msg(id, d) : id \in {ControlId, SetupId}, d \in Payloads }
      \cup { Msg(id, d) : id \in {CurrentId} \cup OtherIds, d \in {<<0, 0, 0, 0>>, <<0, 0, 0, 0, 0, 0, 0, 0>>} }

\* The nominal voltages the operator sets (volts; the spin box allows 0..500).
Voltages == {0, 350}

----------------------------------------------------------------------------
(* SBox: the state machine (sbox-sim.py) *)

SBoxInit ==
    [ voltage |-> 350,
      current |-> 0,
      msgs_per_sec |-> 0,
      pos_contactor_closed |-> FALSE,
      neg_contactor_closed |-> FALSE,
      pch_contactor_closed |-> FALSE,
      contactor_setup |-> FALSE,
      new_msgs |-> 0,
      last_sec |-> 0,
      pch_start |-> None ]

\* One assignment statement of on_control_contactors, executed at time t.
Exec(s, stmt, t) ==
    CASE stmt = "pos=False" -> [s EXCEPT !.pos_contactor_closed = FALSE]
      [] stmt = "pos=True"  -> [s EXCEPT !.pos_contactor_closed = TRUE]
      [] stmt = "neg=False" -> [s EXCEPT !.neg_contactor_closed = FALSE]
      [] stmt = "neg=True"  -> [s EXCEPT !.neg_contactor_closed = TRUE]
      [] stmt = "pch=False" -> [s EXCEPT !.pch_contactor_closed = FALSE]
      [] stmt = "pch=True"  -> [s EXCEPT !.pch_contactor_closed = TRUE]
      [] stmt = "pch_start=None" -> [s EXCEPT !.pch_start = None]
      [] stmt = "pch_start=now"  -> [s EXCEPT !.pch_start = t]

RECURSIVE ExecAll(_, _, _)
ExecAll(s, stmts, t) ==
    IF stmts = <<>> THEN s
    ELSE ExecAll(Exec(s, Head(stmts), t), Tail(stmts), t)

AllOpen(s) ==
    /\ ~s.pos_contactor_closed
    /\ ~s.neg_contactor_closed
    /\ ~s.pch_contactor_closed

\* The cases of the match statement of on_control_contactors: the assignments
\* of each, in the order the code executes them.
CaseOpenKeepsTimer == <<"pos=False", "neg=False", "pch=False">>
CaseOpen == <<"pos=False", "neg=False", "pch=False", "pch_start=None">>

CasePrechargeAlwaysStarts(s) ==
    <<"pch_start=now", "pos=False", "neg=True", "pch=True">>
CasePrecharge(s) ==
    (IF AllOpen(s) THEN <<"pch_start=now">> ELSE <<>>)
        \o <<"pos=False", "neg=True", "pch=True">>

CaseClosedKeepsTimer == <<"pos=True", "neg=True", "pch=True">>
CaseClosed == <<"pos=True", "neg=True", "pch=True", "pch_start=None">>
CasePchOnly == <<"pos=False", "neg=False", "pch=True", "pch_start=None">>
CasePosOnlyForgetsNeg == <<"pos=True", "pch=False", "pch_start=None">>
CasePosOnly == <<"pos=True", "neg=False", "pch=False", "pch_start=None">>

CaseNegPchKeepsTimer == <<"pos=False", "neg=True", "pch=True">>
CaseNegPch == <<"pos=False", "neg=True", "pch=True", "pch_start=None">>

CaseOtherIgnored == <<>>
CaseOther == <<"pos=False", "neg=False", "pch=False", "pch_start=None">>

ControlStatements(s, command) ==
    CASE command = CmdOpen -> CaseOpen
      [] command = CmdPrecharge -> CasePrecharge(s)
      [] command = CmdClosed -> CaseClosed
      [] command = CmdPchOnly -> CasePchOnly
      [] command = CmdPosOnly -> CasePosOnly
      [] command = CmdNegPch -> CaseNegPch
      [] OTHER -> CaseOther

on_control_contactors_short_only(s, msg, t) ==
    IF Dlc(msg) < 4 THEN s
    ELSE ExecAll(s, ControlStatements(s, msg.data[1]), t)
on_control_contactors(s, msg, t) ==
    IF Dlc(msg) # 4 THEN s
    ELSE ExecAll(s, ControlStatements(s, msg.data[1]), t)

on_setup_contactors_first3(s, msg) ==
    IF Dlc(msg) = 4 /\ SubSeq(msg.data, 1, 3) = SubSeq(SetupMagic, 1, 3)
    THEN [s EXCEPT !.contactor_setup = TRUE]
    ELSE [s EXCEPT !.contactor_setup = FALSE]
on_setup_contactors_ignores_length(s, msg) ==
    IF Dlc(msg) # 4 THEN s
    ELSE IF msg.data = SetupMagic
         THEN [s EXCEPT !.contactor_setup = TRUE]
         ELSE [s EXCEPT !.contactor_setup = FALSE]
on_setup_contactors(s, msg) ==
    IF Dlc(msg) = 4 /\ msg.data = SetupMagic
    THEN [s EXCEPT !.contactor_setup = TRUE]
    ELSE [s EXCEPT !.contactor_setup = FALSE]

\* The msgs-per-second counter of on_message.
RateCount(s, t) ==
    LET s1 == [s EXCEPT !.new_msgs = @ + 1]
        sec == t \div TicksPerSec
    IN  IF sec # s1.last_sec
        THEN [s1 EXCEPT !.msgs_per_sec = s1.new_msgs, !.new_msgs = 0, !.last_sec = sec]
        ELSE s1

DispatchBoth(s, msg, t) ==
    CASE msg.arbitration_id \in {ControlId, SetupId} ->
             on_setup_contactors(on_control_contactors(s, msg, t), msg)
      [] OTHER -> s
Dispatch(s, msg, t) ==
    CASE msg.arbitration_id = ControlId -> on_control_contactors(s, msg, t)
      [] msg.arbitration_id = SetupId -> on_setup_contactors(s, msg)
      [] OTHER -> s

on_message(s, msg, t) == Dispatch(RateCount(s, t), msg, t)

\* v * exp(-elapsed / PRECHARGE_RC), rounded up: 1/DecayPerTick per tick.
RECURSIVE Decay(_, _)
Decay(v, elapsed) ==
    IF elapsed = 0 THEN v
    ELSE Decay((v + DecayPerTick - 1) \div DecayPerTick, elapsed - 1)

PrechargeNoComplement(voltage, elapsed) ==
    Decay(voltage * 1000, elapsed)
\* voltage * (1 - exp(-elapsed / PRECHARGE_RC)), in millivolts, elapsed in ticks.
Precharge(voltage, elapsed) ==
    voltage * 1000 - Decay(voltage * 1000, elapsed)

output_voltage_pos_alone(s, t) ==
    IF s.contactor_setup
    THEN IF s.pch_start # None
         THEN Precharge(s.voltage, t - s.pch_start)
         ELSE IF s.pos_contactor_closed
                    \/ (s.pch_contactor_closed /\ s.neg_contactor_closed)
              THEN s.voltage * 1000
              ELSE 0
    ELSE 0
\* SBox.output_voltage at time t, in millivolts.
output_voltage(s, t) ==
    IF s.contactor_setup
    THEN IF s.pch_start # None
         THEN Precharge(s.voltage, t - s.pch_start)
         ELSE IF (s.pos_contactor_closed \/ s.pch_contactor_closed)
                    /\ s.neg_contactor_closed
              THEN s.voltage * 1000
              ELSE 0
    ELSE 0

----------------------------------------------------------------------------
(* The sequential model: each inbound frame is processed completely *)

EmptyMap == [x \in {} |-> 0]

\* The fields on_control_contactors and on_setup_contactors write.
Core(s) ==
    [ pos |-> s.pos_contactor_closed,
      neg |-> s.neg_contactor_closed,
      pch |-> s.pch_contactor_closed,
      setup |-> s.contactor_setup,
      timer |-> s.pch_start ]

\* The receive thread between two frames, n frames received so far.
RxIdle(n) == [pc |-> "idle", msg |-> NoMsg, todo |-> <<>>, pre |-> Core(SBoxInit), n |-> n]
RdIdle == [pc |-> "idle", kind |-> "none", obs |-> EmptyMap, result |-> 0]

threadVars == <<rx, rd, snaps>>
registryVars == <<declared, tx_messages, ctor>>
frameVars == <<data, hist>>

InitSBox ==
    /\ sbox = SBoxInit
    /\ now = StartSec * TicksPerSec
    /\ last = [msg |-> NoMsg, pre |-> Core(SBoxInit), at |-> 0, after_unknown |-> FALSE]

InitThreads ==
    /\ rx = RxIdle(0)
    /\ rd = RdIdle
    /\ snaps = {}

MaxNow == StartSec * TicksPerSec + MaxTicks

\* time passes
Tick ==
    /\ now < MaxNow
    /\ now' = now + 1
    /\ UNCHANGED <<sbox, last>>

\* Notifier thread: SBox.on_message(msg), run to completion
Receive ==
    \E msg \in Frames :
        /\ sbox.new_msgs < MaxMsgsPerSec
        /\ sbox' = on_message(sbox, msg, now)
        /\ last' = [msg |-> msg, pre |-> Core(sbox), at |-> now,
                    after_unknown |-> last.after_unknown \/ IsUnknownCommand(last.msg)]
        /\ UNCHANGED now

\* MainWindow.on_voltage_changed
OnVoltageChanged ==
    \E v \in Voltages \ {sbox.voltage} :
        /\ sbox' = [sbox EXCEPT !.voltage = v]
        /\ UNCHANGED <<now, last>>

----------------------------------------------------------------------------
(* The frame registry built by SBox.__init__ *)

\* At most this many ad-hoc frames are declared in other.MSGS.
MaxAdHoc == 4
\* The identifiers an ad-hoc declaration may carry (0x5B3, 0x5B4, and 0x200).
AdHocIds == {1459, 1460, CurrentId}

RECURSIVE SeqsUpTo(_, _)
SeqsUpTo(S, n) ==
    IF n = 0 THEN {<<>>}
    ELSE LET shorter == SeqsUpTo(S, n - 1)
         IN  shorter \cup { Append(q, x) : q \in {r \in shorter : Len(r) = n - 1}, x \in S }

\* sbox_can_messages.get_messages: the PeriodicMessage subclasses, in definition order.
TelemetryIds == <<CurrentId, PackVoltageId, PostContactorVoltageId>>

\* The frames of both modules in the order __init__ visits them, as arbitration ids:
\* frame number i is Supplied(msgs)[i].
Supplied(msgs) == TelemetryIds \o msgs

\* The loop of __init__ from frame i on; reg maps an arbitration id to the frame
\* stored under it.  The assert stops the construction at the first duplicate.
RECURSIVE RegisterAllOverwrites(_, _, _)
RegisterAllOverwrites(reg, frames, i) ==
    IF i > Len(frames) THEN [ok |-> TRUE, reg |-> reg]
    ELSE RegisterAllOverwrites((frames[i] :> i) @@ reg, frames, i + 1)
RECURSIVE RegisterAll(_, _, _)
RegisterAll(reg, frames, i) ==
    IF i > Len(frames) THEN [ok |-> TRUE, reg |-> reg]
    ELSE IF frames[i] \in DOMAIN reg THEN [ok |-> FALSE, reg |-> reg]
    ELSE RegisterAll(reg @@ (frames[i] :> i), frames, i + 1)

InitRegistryDone ==
    /\ declared = <<>>
    /\ tx_messages = RegisterAll(EmptyMap, Supplied(<<>>), 1).reg
    /\ ctor = "ok"

\* SBox() at start-up
Construct ==
    /\ ctor = "pending"
    /\ LET r == RegisterAll(EmptyMap, Supplied(declared), 1)
       IN  /\ tx_messages' = r.reg
           /\ ctor' = IF r.ok THEN "ok" ELSE "failed"
    /\ UNCHANGED declared

----------------------------------------------------------------------------
(* The telemetry frames (sbox_can_messages.py) *)

FrameNames == {"Current", "PackVoltage", "PostContactorVoltage"}

\* bytearray.fromhex("020000802201D971"), "F60900800004C8A7", "230000800101C6F0"
InitialData ==
    [ Current |-> <<2, 0, 0, 128, 34, 1, 217, 113>>,
      PackVoltage |-> <<246, 9, 0, 128, 0, 4, 200, 167>>,
      PostContactorVoltage |-> <<35, 0, 0, 128, 1, 1, 198, 240>> ]

\* The arguments of CounterField(self.data, 5, 0xF0, delta=1, skip=0xF)
AliveByte == 5
AliveMask == 240
AliveDelta == 1
AliveSkipOffByOne == 15 - 1
AliveSkip == 15

\* The value of the lowest bit of a mask, and the number of values its bits hold.
RECURSIVE LowBit(_)
LowBit(mask) == IF mask % 2 = 1 THEN 1 ELSE 2 * LowBit(mask \div 2)
MaskRange(mask) == mask \div LowBit(mask) + 1

\* The value held in the masked bits of a byte.
Masked(byte, mask) == (byte \div LowBit(mask)) % MaskRange(mask)

\* CounterField.update: the masked bits advance by delta modulo the mask's range,
\* one step further when that lands on skip; the other bits of the byte stay.
CounterFieldUpdate(bytes, byte_offset, mask, delta, skip) ==
    LET old == Masked(bytes[byte_offset + 1], mask)
        naive == (old + delta) % MaskRange(mask)
        next == IF naive = skip THEN (naive + delta) % MaskRange(mask) ELSE naive
    IN  [bytes EXCEPT ![byte_offset + 1] = @ - old * LowBit(mask) + next * LowBit(mask)]

AliveUpdate(bytes) ==
    CounterFieldUpdate(bytes, AliveByte, AliveMask, AliveDelta, AliveSkip)

Pack3Untruncated(v) ==
    LET u == v % 16777216
    IN  <<u % 256, (u \div 256) % 256, (u \div 65536) % 256, IF v < 0 THEN 255 ELSE 0>>
Pack3BigEndian(v) ==
    LET u == v % 16777216
    IN  <<(u \div 65536) % 256, (u \div 256) % 256, u % 256>>
\* struct.pack("<i", v)[:3]: the low three bytes of v's two's complement, little-endian.
Pack3(v) ==
    LET u == v % 16777216
    IN  <<u % 256, (u \div 256) % 256, (u \div 65536) % 256>>

\* data[:3] = b
SetSlice3(bytes, b) == b \o SubSeq(bytes, 4, Len(bytes))

CurrentUpdate(bytes, s) == SetSlice3(AliveUpdate(bytes), Pack3(s.current * 1000))
PackVoltageUpdate(bytes, s) == SetSlice3(AliveUpdate(bytes), Pack3(s.voltage * 1000))
PostContactorVoltageUpdate(bytes, s, t) ==
    SetSlice3(AliveUpdate(bytes), Pack3(output_voltage(s, t)))

\* The counter values the Current frame emitted, keeping the latest HistLen.
HistLen == MaskRange(AliveMask) - 1
Remember(h, v) ==
    IF Len(h) < HistLen THEN Append(h, v) ELSE Append(Tail(h), v)

Alive(bytes) == Masked(bytes[AliveByte + 1], AliveMask)

InitFrames ==
    /\ data = InitialData
    /\ hist = <<>>

\* The commanded currents the operator sets (amperes; the spin box allows -200..200).
Currents == {0, -200}

\* one transmission of a frame: its update()
Update(f, bytes) ==
    /\ data' = [data EXCEPT ![f] = bytes]
    /\ hist' = IF f = "Current" THEN Remember(hist, Alive(bytes)) ELSE hist
    /\ UNCHANGED <<sbox, now, last>>

UpdateCurrent == Update("Current", CurrentUpdate(data.Current, sbox))
UpdatePackVoltage == Update("PackVoltage", PackVoltageUpdate(data.PackVoltage, sbox))
UpdatePostContactorVoltage ==
    Update("PostContactorVoltage",
           PostContactorVoltageUpdate(data.PostContactorVoltage, sbox, now))

\* MainWindow.on_current_changed
OnCurrentChanged ==
    \E c \in Currents \ {sbox.current} :
        /\ sbox' = [sbox EXCEPT !.current = c]
        /\ UNCHANGED <<now, last>>

----------------------------------------------------------------------------
(* The message rate, the packing of milli-unit values, the transmit tasks *)

auxVars == <<rate, milli, sched>>

\* The frames received in the current wall-clock second and in the one before it,
\* and whether any frame arrived before the current second.
RateInit == [in_sec |-> 0, in_prev |-> 0, before |-> FALSE]
MilliInit == [value |-> 0, packed |-> FALSE]

\* A frame's transmit task: asleep until its next tick, or between update() and
\* the hand-over to the transport.  updates counts the calls of update(), pending
\* those since the previous transmission, wire is the payload the transport got
\* last; frozen, inflight and late record the payload when the frame was disabled,
\* whether a transmission was in progress then, and the transmissions since.
TaskInit(f) ==
    [pc |-> "sleep", enabled |-> TRUE, updates |-> 0, pending |-> 0,
     wire |-> InitialData[f], frozen |-> <<>>, inflight |-> FALSE, late |-> 0]
SchedInit == [f \in FrameNames |-> TaskInit(f)]

InitAux ==
    /\ rate = RateInit
    /\ milli = MilliInit
    /\ sched = SchedInit

MaxSends == 2

FrameUpdate(f, bytes, s, t) ==
    CASE f = "Current" -> CurrentUpdate(bytes, s)
      [] f = "PackVoltage" -> PackVoltageUpdate(bytes, s)
      [] f = "PostContactorVoltage" -> PostContactorVoltageUpdate(bytes, s, t)

ShouldRunAlways(task) == TRUE
\* the enabled flag, read when the task wakes for its tick
ShouldRun(task) == task.enabled

\* a tick of frame f: update(), then the payload is on its way to the transport
Wake(f) ==
    /\ sched[f].pc = "sleep"
    /\ sched[f].updates < MaxSends
    /\ ShouldRun(sched[f])
    /\ data' = [data EXCEPT ![f] = FrameUpdate(f, @, sbox, now)]
    /\ sched' = [sched EXCEPT ![f].pc = "send", ![f].updates = @ + 1,
                              ![f].pending = @ + 1]
    /\ UNCHANGED <<sbox, now, last, hist, rate, milli>>

\* the transport takes the payload of frame f
Send(f) ==
    /\ sched[f].pc = "send"
    /\ sched' = [sched EXCEPT ![f].pc = "sleep", ![f].pending = 0,
                              ![f].wire = data[f],
                              ![f].late = IF sched[f].enabled THEN @ ELSE @ + 1]
    /\ UNCHANGED <<sbox, now, last, data, hist, rate, milli>>

\* set_enabled, from the check box of frame f
SetEnabled(f, b) ==
    /\ sched[f].enabled # b
    /\ sched' = [sched EXCEPT ![f].enabled = b,
                              ![f].frozen = IF b THEN <<>> ELSE data[f],
                              ![f].inflight = ~b /\ sched[f].pc = "send",
                              ![f].late = 0]
    /\ UNCHANGED <<sbox, now, last, data, hist, rate, milli>>

RECURSIVE Pow2(_)
Pow2(n) == IF n = 0 THEN 1 ELSE 2 * Pow2(n - 1)

\* Milli-unit values over the int32 range: around every power of two, both signs,
\* the range's ends, and the values the operator's ranges give.
PackInputs ==
    { sign * (Pow2(k) + d) : sign \in {-1, 1}, k \in 0..30, d \in {-1, 0, 1} }
      \cup { Pow2(30) + (Pow2(30) - 1), -Pow2(30) - Pow2(30), 350000, 500000, -200000, 200000 }

\* int(value * 1000) packed into the first three bytes of the Current frame
PackMilli ==
    /\ ~milli.packed
    /\ milli' = [milli EXCEPT !.packed = TRUE]
    /\ data' = [data EXCEPT !.Current = SetSlice3(@, Pack3(milli.value))]
    /\ UNCHANGED <<sbox, now, last, hist, rate, sched>>

\* on_message, counted by the second it arrives in
ReceiveCounted ==
    /\ Receive
    /\ rate' = [rate EXCEPT !.in_sec = @ + 1]

\* time passes, into the next second when the tick crosses a second boundary
TickCounted ==
    /\ Tick
    /\ rate' = IF now' \div TicksPerSec # now \div TicksPerSec
               THEN [in_sec |-> 0, in_prev |-> rate.in_sec,
                     before |-> rate.before \/ rate.in_sec > 0]
               ELSE rate

----------------------------------------------------------------------------
(* The threaded model: on_message runs on the Notifier's thread, one statement
   at a time, while the main thread (the transmit tasks and the display timer)
   reads the same fields without any lock *)

\* The frames the receive thread is fed in the threaded model.
ThreadFrames ==
    { Msg(ControlId, <<c, 0, 0, 0>>) : c \in CommandBytes \cup {1} }
      \cup { Msg(ControlId, <<166>>), Msg(SetupId, SetupMagic),
             Msg(SetupId, <<0, 0, 0, 0>>) }
      \cup { Msg(id, <<0, 0, 0, 0>>) : id \in OtherIds }

\* on_message up to the first assignment of the handler it dispatches to
RxReceive ==
    \E msg \in ThreadFrames :
        /\ rx.pc = "idle"
        /\ sbox.new_msgs < MaxMsgsPerSec
        /\ rx.n < MaxThreadMsgs
        /\ sbox' = RateCount(sbox, now)
        /\ rx' = CASE msg.arbitration_id = ControlId /\ Dlc(msg) = 4 ->
                        [pc |-> "control", msg |-> msg,
                         todo |-> ControlStatements(sbox, msg.data[1]),
                         pre |-> Core(sbox), n |-> rx.n + 1]
                   [] msg.arbitration_id = SetupId ->
                        [pc |-> "setup", msg |-> msg, todo |-> <<>>,
                         pre |-> Core(sbox), n |-> rx.n + 1]
                   [] OTHER -> RxIdle(rx.n + 1)
        /\ UNCHANGED <<now, last, rd, snaps>>

\* the states a reader that held a lock could have seen
Committed(s) == IF rd.pc \in {"idle", "failed"} THEN snaps ELSE snaps \cup {Core(s)}

\* one assignment of on_control_contactors
RxControlStep ==
    /\ rx.pc = "control"
    /\ sbox' = Exec(sbox, Head(rx.todo), now)
    /\ IF Len(rx.todo) = 1
       THEN /\ rx' = RxIdle(rx.n)
            /\ snaps' = Committed(sbox')
       ELSE /\ rx' = [rx EXCEPT !.todo = Tail(@)]
            /\ UNCHANGED snaps
    /\ UNCHANGED <<now, last, rd>>

\* the assignment of on_setup_contactors
RxSetupStep ==
    /\ rx.pc = "setup"
    /\ sbox' = on_setup_contactors(sbox, rx.msg)
    /\ rx' = RxIdle(rx.n)
    /\ snaps' = Committed(sbox')
    /\ UNCHANGED <<now, last, rd>>

\* what the reader has read: field name -> value
Saw(f, v) == [rd EXCEPT !.obs = (f :> v) @@ @]
Goto(r, pc) == [r EXCEPT !.pc = pc]
Return(r, v) == [r EXCEPT !.pc = "done", !.result = v]

\* the main thread starts PostContactorVoltage.update or MainWindow.refresh_ui
RdStart ==
    \E kind \in {"voltage", "display"} :
        /\ rd.pc = "idle"
        /\ rd' = [pc |-> IF kind = "voltage" THEN "l76" ELSE "l283",
                  kind |-> kind, obs |-> EmptyMap, result |-> 0]
        /\ snaps' = {IF rx.pc = "idle" THEN Core(sbox) ELSE rx.pre}
        /\ UNCHANGED <<sbox, now, last, rx>>

\* output_voltage: if self.contactor_setup
RdSetup ==
    /\ rd.pc = "l76"
    /\ rd' = IF sbox.contactor_setup
             THEN Goto(Saw("setup", TRUE), "l77")
             ELSE Return(Saw("setup", FALSE), 0)
    /\ UNCHANGED <<sbox, now, last, rx, snaps>>

\* output_voltage: if self._pch_start is not None
RdTestTimer ==
    /\ rd.pc = "l77"
    /\ rd' = Goto(Saw("timer", sbox.pch_start),
                  IF sbox.pch_start # None THEN "l78" ELSE "l83")
    /\ UNCHANGED <<sbox, now, last, rx, snaps>>

\* output_voltage: t = now() - self._pch_start, a TypeError when it is None by now
RdUseTimer ==
    /\ rd.pc = "l78"
    /\ rd' = IF sbox.pch_start = None
             THEN Goto(rd, "failed")
             ELSE Return(Saw("timer", sbox.pch_start),
                         Precharge(sbox.voltage, now - sbox.pch_start))
    /\ UNCHANGED <<sbox, now, last, rx, snaps>>

\* output_voltage: self.pos_contactor_closed or ...
RdPos ==
    /\ rd.pc = "l83"
    /\ rd' = Goto(Saw("pos", sbox.pos_contactor_closed),
                  IF sbox.pos_contactor_closed THEN "l84" ELSE "l83b")
    /\ UNCHANGED <<sbox, now, last, rx, snaps>>

\* output_voltage: ... or self.pch_contactor_closed
RdPch ==
    /\ rd.pc = "l83b"
    /\ rd' = IF sbox.pch_contactor_closed
             THEN Goto(Saw("pch", TRUE), "l84")
             ELSE Return(Saw("pch", FALSE), 0)
    /\ UNCHANGED <<sbox, now, last, rx, snaps>>

\* output_voltage: ... and self.neg_contactor_closed
RdNeg ==
    /\ rd.pc = "l84"
    /\ rd' = Return(Saw("neg", sbox.neg_contactor_closed),
                    IF sbox.neg_contactor_closed THEN sbox.voltage * 1000 ELSE 0)
    /\ UNCHANGED <<sbox, now, last, rx, snaps>>

\* refresh_ui: one label after the other
RdDisplay ==
    /\ rd.pc \in {"l283", "l286", "l288", "l290"}
    /\ rd' = CASE rd.pc = "l283" -> Goto(Saw("setup", sbox.contactor_setup), "l286")
               [] rd.pc = "l286" -> Goto(Saw("pos", sbox.pos_contactor_closed), "l288")
               [] rd.pc = "l288" -> Goto(Saw("neg", sbox.neg_contactor_closed), "l290")
               [] rd.pc = "l290" -> Return(Saw("pch", sbox.pch_contactor_closed), 0)
    /\ UNCHANGED <<sbox, now, last, rx, snaps>>

\* the evaluation has returned; the main thread goes on
RdFinish ==
    /\ rd.pc = "done"
    /\ rd' = RdIdle
    /\ snaps' = {}
    /\ UNCHANGED <<sbox, now, last, rx>>

TickThreads == Tick /\ UNCHANGED threadVars

----------------------------------------------------------------------------
(* Specifications *)

\* The state machine fed one complete frame at a time.
Init ==
    /\ InitSBox
    /\ InitThreads
    /\ InitRegistryDone
    /\ InitFrames
    /\ InitAux

Next ==
    \/ Tick /\ UNCHANGED <<threadVars, registryVars, frameVars, auxVars>>
    \/ Receive /\ UNCHANGED <<threadVars, registryVars, frameVars, auxVars>>
    \/ OnVoltageChanged /\ UNCHANGED <<threadVars, registryVars, frameVars, auxVars>>

Spec == Init /\ [][Next]_vars

\* The construction of the SBox object from the declared frames.
InitRegistry ==
    /\ InitSBox
    /\ InitThreads
    /\ InitFrames
    /\ InitAux
    /\ declared \in SeqsUpTo(AdHocIds, MaxAdHoc)
    /\ tx_messages = EmptyMap
    /\ ctor = "pending"

NextRegistry ==
    Construct /\ UNCHANGED <<sbox, now, last, threadVars, frameVars, auxVars>>

SpecRegistry == InitRegistry /\ [][NextRegistry]_vars

\* The telemetry frames' updates while the operator changes the source parameters.
NextFrames ==
    \/ UpdateCurrent /\ UNCHANGED <<threadVars, registryVars, auxVars>>
    \/ UpdatePackVoltage /\ UNCHANGED <<threadVars, registryVars, auxVars>>
    \/ UpdatePostContactorVoltage /\ UNCHANGED <<threadVars, registryVars, auxVars>>
    \/ OnCurrentChanged /\ UNCHANGED <<threadVars, registryVars, frameVars, auxVars>>

SpecFrames == Init /\ [][NextFrames]_vars

\* output_voltage as a function of the fields it reads: the fields hold any values
\* (the evaluation runs unsynchronised with on_message), the clock advances.
VoltageInputs ==
    { [SBoxInit EXCEPT !.pos_contactor_closed = p, !.neg_contactor_closed = n,
                       !.pch_contactor_closed = c, !.contactor_setup = e,
                       !.pch_start = st, !.voltage = v] :
        p \in BOOLEAN, n \in BOOLEAN, c \in BOOLEAN, e \in BOOLEAN,
        st \in {None, StartSec * TicksPerSec}, v \in Voltages }

InitVoltage ==
    /\ sbox \in VoltageInputs
    /\ now = StartSec * TicksPerSec
    /\ last = [msg |-> NoMsg, pre |-> Core(SBoxInit), at |-> 0, after_unknown |-> FALSE]
    /\ InitThreads
    /\ InitRegistryDone
    /\ InitFrames
    /\ InitAux

\* one evaluation of the output_voltage property
Evaluate ==
    /\ rd.pc = "idle"
    /\ rd' = [pc |-> "done", kind |-> "voltage", obs |-> EmptyMap,
              result |-> output_voltage(sbox, now)]
    /\ UNCHANGED <<sbox, now, last, rx, snaps>>

TickIdle == rd.pc = "idle" /\ Tick /\ UNCHANGED threadVars

NextVoltage ==
    \/ Evaluate /\ UNCHANGED <<registryVars, frameVars, auxVars>>
    \/ RdFinish /\ UNCHANGED <<registryVars, frameVars, auxVars>>
    \/ TickIdle /\ UNCHANGED <<registryVars, frameVars, auxVars>>

SpecVoltage == InitVoltage /\ [][NextVoltage]_vars

\* The packing of one milli-unit value of the int32 range.
InitPack ==
    /\ InitSBox
    /\ InitThreads
    /\ InitRegistryDone
    /\ InitFrames
    /\ rate = RateInit
    /\ sched = SchedInit
    /\ milli \in { [value |-> v, packed |-> FALSE] : v \in PackInputs }

NextPack == PackMilli /\ UNCHANGED <<threadVars, registryVars>>

SpecPack == InitPack /\ [][NextPack]_vars

\* The transmit tasks of the telemetry frames and their check boxes.
NextSched ==
    \/ \E f \in FrameNames : Wake(f) /\ UNCHANGED <<threadVars, registryVars>>
    \/ \E f \in FrameNames : Send(f) /\ UNCHANGED <<threadVars, registryVars>>
    \/ \E f \in FrameNames, b \in BOOLEAN :
           SetEnabled(f, b) /\ UNCHANGED <<threadVars, registryVars>>

SpecSched == Init /\ [][NextSched]_vars

\* The message rate of on_message against the frames of each wall-clock second.
NextRate ==
    \/ ReceiveCounted /\ UNCHANGED <<threadVars, registryVars, frameVars, milli, sched>>
    \/ TickCounted /\ UNCHANGED <<threadVars, registryVars, frameVars, milli, sched>>

SpecRate == Init /\ [][NextRate]_vars

\* The receive thread interleaved, statement by statement, with a reader.
NextThreads ==
    \/ TickThreads /\ UNCHANGED <<registryVars, frameVars, auxVars>>
    \/ RxReceive /\ UNCHANGED <<registryVars, frameVars, auxVars>>
    \/ RxControlStep /\ UNCHANGED <<registryVars, frameVars, auxVars>>
    \/ RxSetupStep /\ UNCHANGED <<registryVars, frameVars, auxVars>>
    \/ RdStart /\ UNCHANGED <<registryVars, frameVars, auxVars>>
    \/ RdSetup /\ UNCHANGED <<registryVars, frameVars, auxVars>>
    \/ RdTestTimer /\ UNCHANGED <<registryVars, frameVars, auxVars>>
    \/ RdUseTimer /\ UNCHANGED <<registryVars, frameVars, auxVars>>
    \/ RdPos /\ UNCHANGED <<registryVars, frameVars, auxVars>>
    \/ RdPch /\ UNCHANGED <<registryVars, frameVars, auxVars>>
    \/ RdNeg /\ UNCHANGED <<registryVars, frameVars, auxVars>>
    \/ RdDisplay /\ UNCHANGED <<registryVars, frameVars, auxVars>>
    \/ RdFinish /\ UNCHANGED <<registryVars, frameVars, auxVars>>

SpecThreads == Init /\ [][NextThreads]_vars

----------------------------------------------------------------------------
(* Properties *)

Triple(s) == <<s.pos_contactor_closed, s.neg_contactor_closed, s.pch_contactor_closed>>
PreTriple == <<last.pre.pos, last.pre.neg, last.pre.pch>>
Command == last.msg.data[1]

\* C1: after a 4-byte frame on 0x100 the contactor triple (pos, neg, pch) is the
\* one the table gives for the frame's first byte, whatever the state before and
\* whatever setup_enabled is, and for every code but 0xA6 the precharge timer is
\* cleared.
C1_ControlTable ==
    IsControl4(last.msg) =>
        /\ Command = 0   => Triple(sbox) = <<FALSE, FALSE, FALSE>>
        /\ Command = 166 => Triple(sbox) = <<FALSE, TRUE, TRUE>>
        /\ Command = 170 => Triple(sbox) = <<TRUE, TRUE, TRUE>>
        /\ Command = 134 => Triple(sbox) = <<FALSE, FALSE, TRUE>>
        /\ Command = 10  => Triple(sbox) = <<TRUE, FALSE, FALSE>>
        /\ Command = 98  => Triple(sbox) = <<FALSE, TRUE, TRUE>>
        /\ Command # 166 => sbox.pch_start = None

\* 0x62 arrived with setup enabled while the precharge timer was running
C1_Witness ==
    /\ IsControl4(last.msg)
    /\ Command = 98
    /\ last.pre.timer # None
    /\ sbox.contactor_setup
    /\ sbox.pch_start = None

\* C2: a 4-byte 0xA6 received with all three contactors open sets the precharge
\* timer to the instant of the command; received with any contactor closed it
\* leaves the timer as it was; and a started timer changes only by a 4-byte
\* control command whose code is not 0xA6.
C2_TimerStart ==
    /\ (IsControl4(last.msg) /\ Command = 166) =>
            IF PreTriple = <<FALSE, FALSE, FALSE>>
            THEN sbox.pch_start = last.at
            ELSE sbox.pch_start = last.pre.timer
    /\ (last.msg # NoMsg /\ last.pre.timer # None /\ sbox.pch_start # last.pre.timer) =>
            (IsControl4(last.msg) /\ Command # 166)

\* a second 0xA6, later than the one that started the timer, kept the start instant
C2_Witness ==
    /\ IsControl4(last.msg)
    /\ Command = 166
    /\ last.pre.timer # None
    /\ last.at > last.pre.timer
    /\ sbox.pch_start = last.pre.timer

\* C3: an evaluation of output_voltage with setup_enabled and no precharge timer
\* returns the nominal voltage when neg and at least one of pos, pch are closed
\* and 0 otherwise; with setup_enabled false it returns 0 for every contactor
\* triple and every timer value.
C3_OutputVoltage ==
    rd.pc = "done" =>
        /\ ~sbox.contactor_setup => rd.result = 0
        /\ (sbox.contactor_setup /\ sbox.pch_start = None) =>
               rd.result = IF sbox.neg_contactor_closed
                                /\ (sbox.pos_contactor_closed \/ sbox.pch_contactor_closed)
                            THEN sbox.voltage * 1000
                            ELSE 0

\* pos alone is closed, setup is enabled, no timer: the evaluation returned 0 of 350 V
C3_Witness ==
    /\ rd.pc = "done"
    /\ sbox.contactor_setup
    /\ sbox.pch_start = None
    /\ Triple(sbox) = <<TRUE, FALSE, FALSE>>
    /\ sbox.voltage = 350
    /\ rd.result = 0

\* C4: a 4-byte frame on 0x300 sets setup_enabled to true when its payload is
\* FF FE FF FF and to false for any other payload, from either prior value.
C4_SetupGate ==
    (last.msg.arbitration_id = SetupId /\ Dlc(last.msg) = 4) =>
        (sbox.contactor_setup <=> last.msg.data = <<255, 254, 255, 255>>)

\* FF FE FF FE arrived while setup was enabled, and disabled it
C4_Witness ==
    /\ last.msg = Msg(SetupId, <<255, 254, 255, 254>>)
    /\ last.pre.setup
    /\ ~sbox.contactor_setup

C6_BadLengthControlIgnored ==
    (last.msg.arbitration_id = ControlId /\ Dlc(last.msg) # 4) =>
        Core(sbox) = last.pre

\* a 5-byte frame starting with 0xA6 arrived while all contactors were open
C6_Witness ==
    /\ last.msg = Msg(ControlId, <<166, 0, 0, 0, 0>>)
    /\ PreTriple = <<FALSE, FALSE, FALSE>>
    /\ Triple(sbox) = <<FALSE, FALSE, FALSE>>

\* C7: a 4-byte frame on 0x100 with an unknown first byte leaves all three
\* contactors open and the timer cleared, and the frames after it still take
\* effect: a later 0xAA closes all three, a later FF FE FF FF enables setup.
C7_UnknownCommand ==
    /\ IsUnknownCommand(last.msg) =>
            (Triple(sbox) = <<FALSE, FALSE, FALSE>> /\ sbox.pch_start = None)
    /\ (last.after_unknown /\ IsControl4(last.msg) /\ Command = 170) =>
            Triple(sbox) = <<TRUE, TRUE, TRUE>>
    /\ (last.after_unknown /\ last.msg = Msg(SetupId, <<255, 254, 255, 255>>)) =>
            sbox.contactor_setup

\* an unknown command arrived while the timer was running
C7_Witness ==
    /\ IsUnknownCommand(last.msg)
    /\ last.pre.timer # None
    /\ last.pre.neg
    /\ Triple(sbox) = <<FALSE, FALSE, FALSE>>

\* what a reader saw of (pos, neg, pch, timer) is what one complete state held
Consistent(obs, s) ==
    \A f \in DOMAIN obs \cap {"pos", "neg", "pch", "timer"} : obs[f] = s[f]

\* the complete states a reader may report: those that existed while it ran, and
\* the one the command in progress is about to leave
Complete ==
    snaps \cup
        CASE rx.pc = "control" -> {Core(ExecAll(sbox, rx.todo, now))}
          [] rx.pc = "setup" -> {Core(on_setup_contactors(sbox, rx.msg))}
          [] OTHER -> {}

\* C8: what a reader (output_voltage in a transmit task, or the display) has
\* observed of pos, neg, pch and the precharge timer when it finishes is the state
\* before or after a complete command, never a mix of two.
C8_NoTornRead ==
    rd.pc = "done" => \E s \in Complete : Consistent(rd.obs, s)

HasDuplicate(frames) ==
    \E i, j \in 1..Len(frames) : i # j /\ frames[i] = frames[j]

\* C9: constructing the SBox from frames of which two share an arbitration id
\* fails; when it succeeds, tx_messages has one entry per supplied frame, each
\* frame stored under its own arbitration id.
C9_Registry ==
    LET frames == Supplied(declared)
    IN  ctor # "pending" =>
            /\ HasDuplicate(frames) => ctor = "failed"
            /\ ctor = "ok" =>
                   /\ Cardinality(DOMAIN tx_messages) = Len(frames)
                   /\ \A i \in 1..Len(frames) :
                          /\ frames[i] \in DOMAIN tx_messages
                          /\ tx_messages[frames[i]] = i

\* an ad-hoc frame declared with 0x200, the identifier of Current: construction failed
C9_Witness ==
    /\ declared = <<CurrentId>>
    /\ ctor = "failed"

\* C10: the alive counter of a telemetry frame never holds 0xF, and any 15
\* consecutive values the Current frame emitted are pairwise different.
C10_AliveCounter ==
    /\ \A f \in FrameNames : Alive(data[f]) # 15
    /\ \A i \in 1..Len(hist) : hist[i] \in 0..14
    /\ \A i, j \in 1..Len(hist) : i # j => hist[i] # hist[j]

\* fifteen updates from 0: 1, 2, ..., 0xE, then 0 instead of 0xF
C10_Witness ==
    /\ Len(hist) = 15
    /\ hist[1] = 1
    /\ hist[14] = 14
    /\ hist[15] = 0

\* C11: once a frame has been received in the current second, the published
\* msgs_per_sec is the number of frames received during the prior second (stated
\* for the seconds after the one of the first frame).
C11_RatePerSecond ==
    (rate.in_sec >= 1 /\ rate.before) => sbox.msgs_per_sec = rate.in_prev

\* The first three payload bytes read as a sign-extended 24-bit little-endian integer.
Read3Signed(bytes) ==
    LET u == bytes[1] + 256 * bytes[2] + 65536 * bytes[3]
    IN  IF u >= 8388608 THEN u - 16777216 ELSE u

\* A value truncated to its low 24 bits, taken as a signed 24-bit number.
Trunc24(v) ==
    LET low == v % 16777216
    IN  IF low >= 8388608 THEN low - 16777216 ELSE low

\* C12: a milli-unit value of the int32 range packed into the first three bytes
\* reads back, sign-extended from 24 bits, as the value truncated to 24 bits, and
\* as the value itself when it lies in the signed 24-bit range.
C12_PackRoundTrip ==
    milli.packed =>
        /\ Read3Signed(data.Current) = Trunc24(milli.value)
        /\ (milli.value >= -8388608 /\ milli.value <= 8388607) =>
               Read3Signed(data.Current) = milli.value

\* -200 A packed as -200000 mA: C0 F2 FC
C12_Witness ==
    /\ milli.packed
    /\ milli.value = -200000
    /\ SubSeq(data.Current, 1, 3) = <<192, 242, 252>>

\* C13: every transmission of a periodic frame follows exactly one update() since
\* the previous one and carries the payload that update() left; a disabled frame
\* is not updated, so its payload and alive counter stay as they were when it was
\* disabled; and after disabling, only a transmission that was already in progress
\* still reaches the transport.
C13_Scheduler ==
    \A f \in FrameNames :
        LET task == sched[f]
        IN  /\ task.pending = (IF task.pc = "send" THEN 1 ELSE 0)
            /\ task.pc = "sleep" /\ task.updates > 0 => task.wire = data[f]
            /\ ~task.enabled => data[f] = task.frozen
            /\ ~task.enabled =>
                   task.late = (IF task.inflight /\ task.pc = "sleep" THEN 1 ELSE 0)

\* the Current frame was disabled between its update() and its transmission, the
\* transmission went out, and the counter stays at the value it had
C13_Witness ==
    /\ ~sched["Current"].enabled
    /\ sched["Current"].inflight
    /\ sched["Current"].late = 1
    /\ Alive(data.Current) = AliveDelta

\* C14: a frame on 0x300 changes no contactor flag and not the precharge timer,
\* a frame on 0x100 does not change setup_enabled, and a frame on any other
\* identifier changes none of them.
C14_Channels ==
    /\ last.msg.arbitration_id = SetupId =>
           /\ Triple(sbox) = PreTriple
           /\ sbox.pch_start = last.pre.timer
    /\ last.msg.arbitration_id = ControlId =>
           sbox.contactor_setup = last.pre.setup
    /\ last.msg.arbitration_id \notin {ControlId, SetupId} =>
           Core(sbox) = last.pre

\* a running precharge timer is still running after setup, disabled, is enabled
C14_Witness ==
    /\ last.msg = Msg(SetupId, SetupMagic)
    /\ ~last.pre.setup
    /\ sbox.contactor_setup
    /\ last.pre.timer # None
    /\ sbox.pch_start = last.pre.timer
    /\ now > sbox.pch_start

\* C16: between frames, an active precharge timer implies the triple (pos open,
\* neg closed, pch closed).
C16_TimerTriple ==
    sbox.pch_start # None => Triple(sbox) = <<FALSE, TRUE, TRUE>>

C16_Witness ==
    /\ sbox.pch_start # None
    /\ now > sbox.pch_start
    /\ IsControl4(last.msg)
    /\ Command = CmdPrecharge
    /\ last.pre.timer # None

\* C17: between frames, a non-zero output_voltage implies setup_enabled, neg
\* closed and pos or pch closed, also while the precharge timer is active.
C17_OutputNeedsNeg ==
    output_voltage(sbox, now) # 0 =>
        /\ sbox.contactor_setup
        /\ sbox.neg_contactor_closed
        /\ sbox.pos_contactor_closed \/ sbox.pch_contactor_closed

\* a non-zero output on the precharge curve
C17_Witness ==
    /\ sbox.pch_start # None
    /\ now > sbox.pch_start
    /\ output_voltage(sbox, now) > 0
    /\ output_voltage(sbox, now) < sbox.voltage * 1000

\* C19: between frames the contactor triple (pos, neg, pch) is one of five values.
C19_FiveTriples ==
    Triple(sbox) \in { <<FALSE, FALSE, FALSE>>, <<FALSE, TRUE, TRUE>>,
                       <<TRUE, TRUE, TRUE>>, <<FALSE, FALSE, TRUE>>,
                       <<TRUE, FALSE, FALSE>> }

\* from (closed, closed, closed), command 0x0A opens neg as well
C19_Witness ==
    /\ Triple(sbox) = <<TRUE, FALSE, FALSE>>
    /\ PreTriple = <<TRUE, TRUE, TRUE>>
    /\ IsControl4(last.msg)
    /\ Command = CmdPosOnly

\* C15: after any number of update() calls a telemetry frame still has 8 bytes,
\* and bytes 3, 4, 6, 7 and the low nibble of byte 5 are as constructed.
C15_UpdateFootprint ==
    \A f \in FrameNames :
        /\ Len(data[f]) = 8
        /\ \A i \in {3, 4, 6, 7} : data[f][i + 1] = InitialData[f][i + 1]
        /\ data[f][AliveByte + 1] % 16 = InitialData[f][AliveByte + 1] % 16

\* the Current frame updated twice, the second time with -200 A
C15_Witness ==
    /\ SubSeq(data.Current, 1, 3) = <<192, 242, 252>>
    /\ Alive(data.Current) = 2
    /\ data.Current[AliveByte + 1] = 33
    /\ Alive(data.PostContactorVoltage) = 1

\* C18: an evaluation of output_voltage that interleaves with on_message never
\* fails: the timer it subtracts from the current time is the one it tested.
C18_EvaluationCompletes ==
    rd.pc # "failed"

\* C20: with setup_enabled and the precharge timer active, an evaluation of
\* output_voltage is the point of the charging curve at the elapsed time, whatever
\* the contactor flags: 0 at elapsed 0, never above the nominal voltage, never
\* decreasing from one tick to the next, and the distance to the nominal voltage
\* shrinks by exp(-tick / RC) = 1/DecayPerTick with every tick (to the rounding
\* of a millivolt).
C20_PrechargeCurve ==
    (rd.pc = "done" /\ sbox.contactor_setup /\ sbox.pch_start # None) =>
        LET nominal == sbox.voltage * 1000
            elapsed == now - sbox.pch_start
            Out(e) == output_voltage(sbox, sbox.pch_start + e)
            Gap(e) == nominal - Out(e)
        IN  /\ rd.result = Out(elapsed)
            /\ \A p, n, c \in BOOLEAN :
                   output_voltage([sbox EXCEPT !.pos_contactor_closed = p,
                                               !.neg_contactor_closed = n,
                                               !.pch_contactor_closed = c], now)
                       = rd.result
            /\ Out(0) = 0
            /\ rd.result >= 0
            /\ rd.result <= nominal
            /\ \A e \in 0..(elapsed + 3) :
                   /\ Out(e) <= Out(e + 1)
                   /\ Out(e + 1) <= nominal
                   /\ Gap(e + 1) * DecayPerTick < Gap(e) + DecayPerTick
            /\ \A e \in 3..(elapsed + 3) : Gap(e) <= 1

\* one tick into the precharge with all contactors open: 350 V less 1/128 of it
C20_Witness ==
    /\ rd.pc = "done"
    /\ sbox.contactor_setup
    /\ sbox.pch_start # None
    /\ now = sbox.pch_start + 1
    /\ Triple(sbox) = <<FALSE, FALSE, FALSE>>
    /\ sbox.voltage = 350
    /\ rd.result = 347265

====
